---- MODULE Spec2Model ----
(***************************************************************************)
(* A model of sumnation.js: the summation engine `sumnation`, its four     *)
(* wrappers, simpsons_rule and coprime.                                    *)
(*                                                                         *)
(* JavaScript numbers are modelled by exact arithmetic: integers for the   *)
(* cursor and rationals (records [num, den] in lowest terms, den > 0) for  *)
(* the accumulator and for every value a transform returns.  Within the    *)
(* bounds of the model every integer is far below 2^53, where the          *)
(* program's double arithmetic on integers is exact as well.               *)
(***************************************************************************)
EXTENDS Integers, Sequences, FiniteSets, TLC

\* Bounds of the model.
MaxVal == 2
MaxN == 4
MaxGcd == 12

\* Cap on the loop iterations explored for one call; larger than the
\* iteration count of every terminating call within the bounds.
MaxIter == (2 * MaxVal) + 3

VARIABLES
    pc,       \* "idle" | "loop" | "done"
    fn,       \* the function of the library the caller invoked
    args,     \* the arguments the caller passed to fn
    f,        \* sumnation's parameter f (a closure)
    filter,   \* sumnation's parameter filter (a closure)
    a,        \* sumnation's parameter a
    next,     \* sumnation's parameter next (a closure)
    b,        \* sumnation's parameter b
    i,        \* sumnation's local i, the cursor
    answer,   \* sumnation's local answer, the accumulator
    visited,  \* history: the cursor values the loop body has run for
    calls,    \* history: how often filter, f and next were invoked
    result,   \* the number fn returned
    verdict   \* the boolean coprime(n)(i) returned

vars == <<pc, fn, args, f, filter, a, next, b, i, answer, visited, calls,
          result, verdict>>

----------------------------------------------------------------------------
\* Exact arithmetic standing for the program's number operators.

Abs(x) == IF x < 0 THEN -x ELSE x

Max(x, y) == IF x >= y THEN x ELSE y

\* Greatest common divisor by its definition (no Euclid): the largest
\* natural dividing both, and 0 for gcd(0, 0).
RefGcd(x, y) ==
    IF x = 0 /\ y = 0 THEN 0
    ELSE CHOOSE d \in 1..Max(Abs(x), Abs(y)) :
            /\ Abs(x) % d = 0 /\ Abs(y) % d = 0
            /\ \A e \in (d + 1)..Max(Abs(x), Abs(y)) :
                   ~(Abs(x) % e = 0 /\ Abs(y) % e = 0)

\* The same divisor for naturals x and y, by repeated remainders.
RECURSIVE NatGcd(_, _)
NatGcd(x, y) == IF y = 0 THEN x ELSE NatGcd(y, x % y)

Rat(n) == [num |-> n, den |-> 1]

\* n / d in lowest terms with a positive denominator (d # 0).
Norm(n, d) ==
    LET g == NatGcd(Abs(n), Abs(d))
        s == IF d < 0 THEN -1 ELSE 1
    IN  [num |-> (s * n) \div g, den |-> (s * d) \div g]

\* JavaScript + on numbers.
RAdd(p, q) == Norm((p.num * q.den) + (q.num * p.den), p.den * q.den)

\* JavaScript * on numbers.
RMul(p, q) == Norm(p.num * q.num, p.den * q.den)

\* JavaScript / on numbers, for a non-zero divisor.
RDiv(p, q) == Norm(p.num * q.den, p.den * q.num)

\* JavaScript %: the remainder takes the sign of the dividend (y # 0).
JsRem(x, y) == IF x >= 0 THEN x % Abs(y) ELSE -((-x) % Abs(y))

----------------------------------------------------------------------------
\* coprime(n) and its inner gcd.

RECURSIVE gcd(_, _)
gcd(x, y) == IF y = 0 THEN x ELSE gcd(y, JsRem(x, y))

\* coprime(n)(c)
coprime(n, c) == gcd(c, n) = 1

----------------------------------------------------------------------------
\* Closures.  A closure is a record: its kind names the function expression
\* and the other fields are the variables it captured.

\* x => x + 1
IncStuck(x) == x
Inc(x) == x + 1

\* x => x
Identity(x) == Rat(x)

\* x => true
AlwaysTrue == [kind |-> "always_true"]

\* The integrands handed to simpsons_rule: x => x * x * x and simpler ones.
Integrand(g, x) ==
    CASE g = "one" -> Rat(1)
      [] g = "linear" -> x
      [] g = "square" -> RMul(x, x)
      [] g = "cube" -> RMul(RMul(x, x), x)

\* y(k) of simpsons_rule: f(a + (k * h))
y(g, lo, h, k) == Integrand(g, RAdd(Rat(lo), RMul(Rat(k), h)))

\* simpson_coefficient(k) of simpsons_rule
simpson_coefficient(g, lo, h, k) ==
    IF k = 0 THEN y(g, lo, h, k)
    ELSE IF JsRem(k, 2) = 0 THEN RMul(Rat(2), y(g, lo, h, k))
    ELSE RMul(Rat(4), y(g, lo, h, k))

\* f(c) for the closure t that sumnation was given as f.
ApplyF(t, c) ==
    CASE t.kind = "identity" -> Identity(c)
      [] t.kind = "cube" -> Rat(c * c * c)
      [] t.kind = "negate" -> Rat(-c)
      [] t.kind = "simpson_coefficient" -> simpson_coefficient(t.f, t.a, t.h, c)

\* filter(c) for the closure flt that sumnation was given as filter.
ApplyFilter(flt, c) ==
    CASE flt.kind = "always_true" -> TRUE
      [] flt.kind = "positive" -> c > 0
      [] flt.kind = "coprime" -> coprime(flt.n, c)

\* next(c) for the closure nx that sumnation was given as next.
ApplyNext(nx, c) ==
    CASE nx = "inc" -> Inc(c)
      [] nx = "inc2" -> c + 2
      [] nx = "stay" -> c
      [] nx = "dec" -> c - 1
      [] nx = "zigzag" -> IF JsRem(c, 2) = 0 THEN c - 1 ELSE c + 4

\* The closures the caller draws its arguments from.
Transforms == {[kind |-> "identity"], [kind |-> "cube"], [kind |-> "negate"]}
Filters == {AlwaysTrue, [kind |-> "positive"]}
              \cup {[kind |-> "coprime", n |-> m] : m \in {2, 3}}
Successors == {"inc", "inc2", "stay", "dec", "zigzag"}
Integrands == {"one", "linear", "square", "cube"}
Bounds == (-MaxVal)..MaxVal

----------------------------------------------------------------------------
\* sumnation(f, filter, a, next, b), statement by statement.

\* var answer = 0
InitialAnswer == Rat(0)

\* while (i <= b)
LoopCondOffByOne(c, hi) == c <= hi + 1
LoopCondExclusive(c, hi) == c < hi
LoopCond(c, hi) == c <= hi

\* if (filter(i)) { answer += f(i); }
AccumulateUnfiltered(t, flt, acc, c) == RAdd(acc, ApplyF(t, c))
Accumulate(t, flt, acc, c) ==
    IF ApplyFilter(flt, c) THEN RAdd(acc, ApplyF(t, c)) ELSE acc

\* i = next(i)
AdvanceOneFurther(nx, c) == ApplyNext(nx, c) + 1
Advance(nx, c) == ApplyNext(nx, c)

\* The five arguments of one call of sumnation.
SumnationCall(t, flt, lo, nx, hi) ==
    [f |-> t, filter |-> flt, a |-> lo, next |-> nx, b |-> hi]

\* The value a call of sumnation returns when its loop ends.
RECURSIVE Loop(_, _, _)
Loop(call, c, acc) ==
    IF LoopCond(c, call.b)
    THEN Loop(call, Advance(call.next, c),
              Accumulate(call.f, call.filter, acc, c))
    ELSE acc

sumnation(call) == Loop(call, call.a, InitialAnswer)

----------------------------------------------------------------------------
\* The wrappers: the call of sumnation each one makes.

add(lo, hi) == SumnationCall([kind |-> "identity"], AlwaysTrue, lo, "inc", hi)

filtered_add_swapped(flt, lo, hi) ==
    SumnationCall([kind |-> "identity"], flt, hi, "inc", lo)
filtered_add(flt, lo, hi) ==
    SumnationCall([kind |-> "identity"], flt, lo, "inc", hi)

addition(t, lo, hi) == SumnationCall(t, AlwaysTrue, lo, "inc", hi)

filtered_addition(t, flt, lo, hi) == SumnationCall(t, flt, lo, "inc", hi)

\* var h = (b - a) / n
StepWidth(lo, hi, n) == RDiv(Rat(hi - lo), Rat(n))

\* simpsons_rule: addition(simpson_coefficient, 0, n)
simpsons_rule(g, lo, hi, n) ==
    addition([kind |-> "simpson_coefficient", f |-> g, a |-> lo,
              h |-> StepWidth(lo, hi, n)], 0, n)

\* simpsons_rule: return (h / 3) * addition(...)
simpsons_result(h, sum) == RMul(RDiv(h, Rat(3)), sum)

----------------------------------------------------------------------------
\* The state machine.

NoCalls == [filter |-> 0, f |-> 0, next |-> 0]

Init ==
    /\ pc = "idle"
    /\ fn = "none"
    /\ args = <<>>
    /\ f = [kind |-> "identity"]
    /\ filter = AlwaysTrue
    /\ a = 0
    /\ next = "inc"
    /\ b = 0
    /\ i = 0
    /\ answer = Rat(0)
    /\ visited = <<>>
    /\ calls = NoCalls
    /\ result = Rat(0)
    /\ verdict = FALSE

\* Entry into sumnation: var i = a; var answer = 0
Enter(name, av, call) ==
    /\ pc' = "loop"
    /\ fn' = name
    /\ args' = av
    /\ f' = call.f
    /\ filter' = call.filter
    /\ a' = call.a
    /\ next' = call.next
    /\ b' = call.b
    /\ i' = call.a
    /\ answer' = InitialAnswer
    /\ UNCHANGED <<visited, calls, result, verdict>>

CallSumnation ==
    \E t \in Transforms, flt \in Filters, lo \in Bounds,
       nx \in Successors, hi \in Bounds :
        /\ pc = "idle"
        /\ Enter("sumnation",
                 [f |-> t, filter |-> flt, a |-> lo, next |-> nx, b |-> hi],
                 SumnationCall(t, flt, lo, nx, hi))

CallAdd ==
    \E lo \in Bounds, hi \in Bounds :
        /\ pc = "idle"
        /\ Enter("add", [a |-> lo, b |-> hi], add(lo, hi))

CallFilteredAdd ==
    \E flt \in Filters, lo \in Bounds, hi \in Bounds :
        /\ pc = "idle"
        /\ Enter("filtered_add", [filter |-> flt, a |-> lo, b |-> hi],
                 filtered_add(flt, lo, hi))

CallAddition ==
    \E t \in Transforms, lo \in Bounds, hi \in Bounds :
        /\ pc = "idle"
        /\ Enter("addition", [f |-> t, a |-> lo, b |-> hi], addition(t, lo, hi))

CallFilteredAddition ==
    \E t \in Transforms, flt \in Filters, lo \in Bounds, hi \in Bounds :
        /\ pc = "idle"
        /\ Enter("filtered_addition",
                 [f |-> t, filter |-> flt, a |-> lo, b |-> hi],
                 filtered_addition(t, flt, lo, hi))

CallSimpsonsRule ==
    \E g \in Integrands, lo \in Bounds, hi \in Bounds, n \in 1..MaxN :
        /\ pc = "idle"
        /\ Enter("simpsons_rule", [f |-> g, a |-> lo, b |-> hi, n |-> n],
                 simpsons_rule(g, lo, hi, n))

\* One iteration of the while loop of sumnation.
LoopIter ==
    /\ pc = "loop"
    /\ LoopCond(i, b)
    /\ Len(visited) < MaxIter
    /\ answer' = Accumulate(f, filter, answer, i)
    /\ i' = Advance(next, i)
    /\ visited' = Append(visited, i)
    /\ calls' = [filter |-> calls.filter + 1,
                 f |-> calls.f + (IF ApplyFilter(filter, i) THEN 1 ELSE 0),
                 next |-> calls.next + 1]
    /\ UNCHANGED <<pc, fn, args, f, filter, a, next, b, result, verdict>>

\* The loop ends: sumnation returns answer and the wrapper returns it
\* unchanged.
Return ==
    /\ pc = "loop"
    /\ ~LoopCond(i, b)
    /\ fn # "simpsons_rule"
    /\ pc' = "done"
    /\ result' = answer
    /\ UNCHANGED <<fn, args, f, filter, a, next, b, i, answer, visited,
                   calls, verdict>>

\* The loop ends under simpsons_rule, which returns (h / 3) * the sum.
SimpsonsRuleReturn ==
    /\ pc = "loop"
    /\ ~LoopCond(i, b)
    /\ fn = "simpsons_rule"
    /\ pc' = "done"
    /\ result' = simpsons_result(f.h, answer)
    /\ UNCHANGED <<fn, args, f, filter, a, next, b, i, answer, visited,
                   calls, verdict>>

\* coprime(n)(c): no loop of sumnation is involved.
CallCoprime ==
    \E n \in (-MaxGcd)..MaxGcd, c \in (-MaxGcd)..MaxGcd :
        /\ pc = "idle"
        /\ pc' = "done"
        /\ fn' = "coprime"
        /\ args' = [n |-> n, i |-> c]
        /\ verdict' = coprime(n, c)
        /\ UNCHANGED <<f, filter, a, next, b, i, answer, visited, calls,
                       result>>

Next ==
    \/ CallSumnation
    \/ CallAdd
    \/ CallFilteredAdd
    \/ CallAddition
    \/ CallFilteredAddition
    \/ CallSimpsonsRule
    \/ CallCoprime
    \/ LoopIter
    \/ Return
    \/ SimpsonsRuleReturn

Spec == Init /\ [][Next]_vars

----------------------------------------------------------------------------
\* Vocabulary of the properties.

Wrappers == {"add", "filtered_add", "addition", "filtered_addition"}

\* The cursor values a call within the bounds can reach.
Cursors == (-(MaxVal + MaxIter + 1))..(MaxVal + MaxIter + 4)

\* successor(c) > c for every c
StrictlyIncreasing(nx) == \A c \in Cursors : ApplyNext(nx, c) > c

\* The chain start, successor(start), ... up to the last value <= end, for
\* a strictly increasing successor.
RECURSIVE Chain(_, _, _)
Chain(nx, c, hi) ==
    IF c > hi THEN <<>> ELSE <<c>> \o Chain(nx, ApplyNext(nx, c), hi)

\* The sum of transform(c) over the members c of seq that satisfy filter(c).
RECURSIVE SumOver(_, _, _)
SumOver(t, flt, seq) ==
    IF seq = <<>> THEN Rat(0)
    ELSE RAdd(SumOver(t, flt, SubSeq(seq, 1, Len(seq) - 1)),
              IF ApplyFilter(flt, seq[Len(seq)])
              THEN ApplyF(t, seq[Len(seq)]) ELSE Rat(0))

\* The composite Simpson's rule of the textbooks: weight 1 at both
\* endpoints, 4 at odd and 2 at even interior points.
SimpsonWeight(k, n) ==
    IF k = 0 \/ k = n THEN 1 ELSE IF k % 2 = 1 THEN 4 ELSE 2

RECURSIVE SimpsonSum(_, _, _, _, _)
SimpsonSum(g, lo, h, n, k) ==
    IF k > n THEN Rat(0)
    ELSE RAdd(RMul(Rat(SimpsonWeight(k, n)),
                   Integrand(g, RAdd(Rat(lo), RMul(Rat(k), h)))),
              SimpsonSum(g, lo, h, n, k + 1))

StandardSimpson(g, lo, hi, n) ==
    LET h == Norm(hi - lo, n)
    IN  RMul(Norm(h.num, 3 * h.den), SimpsonSum(g, lo, h, n, 0))

----------------------------------------------------------------------------
\* C1: at the head of every loop iteration, and on return, the accumulator
\* is the sum of transform(c) over the cursors visited so far that satisfy
\* the filter; for a strictly increasing successor the cursors visited on
\* return are exactly the chain start, successor(start), ... up to end, so
\* the returned value is the sum over that chain and nothing else.
C1_SumOverChain ==
    /\ answer = SumOver(f, filter, visited)
    /\ (pc = "done" /\ fn # "coprime" /\ StrictlyIncreasing(next)) =>
          /\ visited = Chain(next, a, b)
          /\ answer = SumOver(f, filter, Chain(next, a, b))
          /\ (fn # "simpsons_rule" => result = answer)

C1_Witness ==
    /\ pc = "done" /\ fn = "sumnation"
    /\ next = "inc2" /\ filter.kind = "positive" /\ f.kind = "cube"
    /\ a = -2 /\ b = 2
    /\ visited = <<-2, 0, 2>>
    /\ result = Rat(8)

\* C2: add(a, b) with a <= b returns (b - a + 1) * (a + b) / 2.
C2_AddClosedForm ==
    (pc = "done" /\ fn = "add" /\ args.a <= args.b) =>
        /\ result.den = 1
        /\ 2 * result.num = (args.b - args.a + 1) * (args.a + args.b)

C2_Witness ==
    /\ pc = "done" /\ fn = "add"
    /\ args.a = -2 /\ args.b = 1
    /\ result = Rat(-2)

\* C3: a call of sumnation with start > end returns 0 and never runs the
\* loop body: filter, transform and successor are not invoked.
C3_EmptyRange ==
    (pc # "idle" /\ fn # "coprime" /\ a > b) =>
        /\ visited = <<>>
        /\ calls = NoCalls
        /\ answer = Rat(0)
        /\ (pc = "done" => result = Rat(0))

C3_Witness ==
    /\ pc = "done" /\ fn = "sumnation"
    /\ a = 1 /\ b = -1
    /\ next = "stay" /\ f.kind = "cube" /\ filter.kind = "positive"
    /\ result = Rat(0)

\* C4: filtered_add(always-true, a, b) returns what add(a, b) returns, for
\* all bounds, a > b included.
C4_FilteredAddIsAdd ==
    (pc = "done" /\ fn = "filtered_add" /\ args.filter.kind = "always_true") =>
        result = sumnation(add(args.a, args.b))

C4_Witness ==
    /\ pc = "done" /\ fn = "filtered_add"
    /\ args.filter.kind = "always_true"
    /\ args.a = -1 /\ args.b = 2
    /\ result = Rat(2)

\* C5: coprime(n)(i) is true exactly when the greatest common divisor of i
\* and n is 1, for all integers i and n, negative ones included.
C5_CoprimeIffGcdOne ==
    (pc = "done" /\ fn = "coprime") =>
        (verdict <=> (RefGcd(args.i, args.n) = 1))

\* C6: for even n and a < b, simpsons_rule(f, a, b, n) is the composite
\* Simpson's rule value, with weight 1 on both endpoint terms.
C6_SimpsonIsStandard ==
    (pc = "done" /\ fn = "simpsons_rule"
        /\ args.n % 2 = 0 /\ args.a < args.b) =>
        result = StandardSimpson(args.f, args.a, args.b, args.n)

\* C7: for even n, simpsons_rule(x -> x^3, 0, 1, n) is exactly 1/4.
C7_CubeIsOneQuarter ==
    (pc = "done" /\ fn = "simpsons_rule" /\ args.f = "cube"
        /\ args.a = 0 /\ args.b = 1 /\ args.n % 2 = 0) =>
        result = [num |-> 1, den |-> 4]

\* C8: with a strictly increasing successor a call runs at most
\* max(0, end - start + 1) loop iterations, and every step of it either
\* returns or brings the cursor closer to the end, so it terminates; the
\* four wrappers, whose successor is +1, return after exactly
\* max(0, end - start + 1) iterations.
C8_IterationBound ==
    /\ (fn # "coprime" /\ StrictlyIncreasing(next)) =>
          Len(visited) <= Max(0, (b - a) + 1)
    /\ (fn \in Wrappers) =>
          /\ Len(visited) <= Max(0, (args.b - args.a) + 1)
          /\ (pc = "done" => Len(visited) = Max(0, (args.b - args.a) + 1))

\* The distance left to the end of the range: the loop's variant.
Remaining == Max(0, (b - i) + 1)

C8_Terminates ==
    /\ []C8_IterationBound
    /\ [][(pc = "loop" /\ (StrictlyIncreasing(next) \/ fn \in Wrappers)) =>
             (pc' = "done" \/ Remaining' < Remaining)]_vars

C8_Witness ==
    /\ pc = "done" /\ fn = "filtered_addition"
    /\ args.a = -2 /\ args.b = 2
    /\ Len(visited) = 5

\* C10 as stated: once the loop has visited a cursor value c with
\* successor(c) <= c, the call (with start <= end) never returns.
C10_AnyNonIncreasingStep ==
    (a <= b /\ \E k \in 1..Len(visited) :
                  ApplyNext(next, visited[k]) <= visited[k]) =>
        pc # "done"

\* C10 amended: if successor(c) <= c at some visited cursor value c and at
\* every cursor value visited after it, the call (with start <= end) never
\* returns.
C10_NonIncreasingFromSomeStepOn ==
    (a <= b /\ \E k \in 1..Len(visited) :
                  \A j \in k..Len(visited) :
                      ApplyNext(next, visited[j]) <= visited[j]) =>
        pc # "done"

C10_Witness ==
    /\ pc = "loop" /\ fn = "sumnation"
    /\ next = "dec" /\ a = 0 /\ b = 1
    /\ visited = <<0, -1, -2>>
    /\ i = -3

====
